---- MODULE Spec2Model ----
(***************************************************************************)
(* Quizzmaster: the TakeQuiz component (frontend), the AuthProvider        *)
(* context (frontend) and the quiz controller (backend), each as a state   *)
(* machine.  The three parts share no state; each has its own              *)
(* specification (Spec, AuthSpec, CtlSpec) over the common variables.      *)
(* The frontend parts keep their asynchronous calls in flight; the         *)
(* controller's requests are handled one at a time, each to its answer.    *)
(***************************************************************************)
EXTENDS Integers, Sequences, FiniteSets, TLC

\* ------------------------------------------------------------------ bounds
MaxQuestions == 2
MaxPending == 1
MaxLogins == 2
MaxQuizzes == 2

\* --------------------------------------------------------- program constants
quizId == 1
Unanswered == -1
SecondsPerMinute == 60

LoadFailed == "Failed to load quiz. Please try again later."
SubmitFailed == "Failed to submit quiz. Please try again."

QuizRoute == "/quiz/:id"
QuizzesRoute == "/quizzes"
ResultsRoute == "/results/:id"

\* A value of type T | null is <<>> (null) or <<v>>.
Null == <<>>
Some(v) == <<v>>

\* Input sets.  timeLimit is in minutes.
TimeLimits == {0, 1}
QuestionCounts == 0..MaxQuestions
OptionIds == {1, 2}
QuestionId(i) == 10 * i

VARIABLES
  \* TakeQuiz component state (useState / useRef)
  route,                \* the router's current location
  quiz,                 \* Null or Some(timeLimit)
  questions,            \* sequence of question ids
  currentQuestionIndex, \* 0-based
  answers,              \* the answers array: a sequence of references
  answerObjs,           \* the Answer objects the arrays refer to
  selectedOption,       \* Null or Some(option id)
  timeLeft,
  quizStarted,
  quizFinished,
  loading,
  error,                \* Null or Some(message)
  showConfirmModal,
  timerActive,          \* timerRef holds a live interval
  timerAnswers,         \* the answers array captured by the interval's closure
  \* submitQuiz calls
  submitted,            \* Null or Some(body of the most recent submitQuiz call)
  submitTrigger,        \* who made that call: "button" or "timer"
  pendingSubmits,       \* submitQuiz calls not yet answered
  tickParity,           \* history: flips at every firing of the interval
  lastChoice,           \* history: per question, the option last chosen by the user
  \* AuthProvider state
  user,                 \* Null or Some([id, role])
  token,                \* Null or Some(token)
  lsToken,              \* localStorage's 'token' entry: Null or Some(token)
  authLoading,          \* AuthProvider's loading
  authError,            \* AuthProvider's error
  effectDue,            \* a render changed token (or mounted): the effect has yet to run
  profilePending,       \* getUserProfile calls not yet answered
  loginPending,         \* loginApi calls not yet answered
  logins,               \* number of login calls so far
  lastAuthStep,         \* history: the AuthProvider step taken last
  everLoaded,           \* history: a profile or a login has supplied a user
  \* quiz controller (backend)
  quizzes,              \* the quizzes table: id -> row
  nextId,               \* the table's next auto-increment id
  lastResp              \* Null or Some(the request in hand with the answer it got)

tqVars == <<route, quiz, questions, currentQuestionIndex, answers, answerObjs,
            selectedOption, timeLeft, quizStarted, quizFinished, loading, error,
            showConfirmModal, timerActive, timerAnswers, submitted, submitTrigger,
            pendingSubmits, tickParity, lastChoice>>

authVars == <<user, token, lsToken, authLoading, authError, effectDue, profilePending,
              loginPending, logins, lastAuthStep, everLoaded>>

ctlVars == <<quizzes, nextId, lastResp>>

vars == <<tqVars, authVars, ctlVars>>

notTq == <<authVars, ctlVars>>
notAuth == <<tqVars, ctlVars>>
notCtl == <<tqVars, authVars>>

\* ------------------------------------------------------------- TakeQuiz
mounted == route = QuizRoute

\* Which view the component renders (lines 177-233): the first that applies.
View ==
  IF loading THEN "loading"
  ELSE IF error # Null THEN "error"
  ELSE IF ~quizStarted THEN "instructions"
  ELSE "quiz"

\* The Answer objects an array refers to, in order.
Deref(arr) == [i \in 1..Len(arr) |-> answerObjs[arr[i]]]

RECURSIVE Filter(_, _)
Filter(s, keepUnanswered) ==
  IF s = <<>> THEN <<>>
  ELSE IF keepUnanswered \/ s[1].selected_option # Unanswered
       THEN <<s[1]>> \o Filter(Tail(s), keepUnanswered)
       ELSE Filter(Tail(s), keepUnanswered)

validAnswersKeepAll(arr) == Filter(Deref(arr), TRUE)

\* answers.filter(answer => answer.selected_option !== -1)
validAnswers(arr) == Filter(Deref(arr), FALSE)

\* The useState / useRef initial values (lines 21-34).
InitialComponentState(q, qs, idx, ans, objs, sel, tl, started, finished, ld, err, modal, timer, tans, parity, choice) ==
  /\ q = Null
  /\ qs = <<>>
  /\ idx = 0
  /\ ans = <<>>
  /\ objs = <<>>
  /\ sel = Null
  /\ tl = 0
  /\ started = FALSE
  /\ finished = FALSE
  /\ ld = TRUE
  /\ err = Null
  /\ modal = FALSE
  /\ timer = FALSE
  /\ tans = <<>>
  /\ parity = 0
  /\ choice = <<>>

TQInit ==
  /\ route = QuizRoute
  /\ InitialComponentState(quiz, questions, currentQuestionIndex, answers, answerObjs,
                           selectedOption, timeLeft, quizStarted, quizFinished, loading,
                           error, showConfirmModal, timerActive, timerAnswers,
                           tickParity, lastChoice)
  /\ submitted = Null
  /\ submitTrigger = "none"
  /\ pendingSubmits = 0

\* The route changes: TakeQuiz unmounts, its cleanups clear the interval and
\* its state is discarded (the variables return to their initial values).
Unmount(newRoute) ==
  /\ route' = newRoute
  /\ InitialComponentState(quiz', questions', currentQuestionIndex', answers',
                           answerObjs', selectedOption', timeLeft', quizStarted',
                           quizFinished', loading', error', showConfirmModal',
                           timerActive', timerAnswers', tickParity', lastChoice')

\* fetchQuizData, both requests answered.
fetchQuizDataOk ==
  /\ UNCHANGED notTq
  /\ mounted /\ loading
  /\ \E T \in TimeLimits, n \in QuestionCounts :
       /\ quiz' = Some(T)
       /\ timeLeft' = T * SecondsPerMinute
       /\ questions' = [i \in 1..n |-> QuestionId(i)]
       /\ answerObjs' = [i \in 1..n |->
                           [question_id |-> QuestionId(i), selected_option |-> Unanswered]]
       /\ answers' = [i \in 1..n |-> i]
       /\ lastChoice' = [i \in 1..n |-> Unanswered]
  /\ loading' = FALSE
  /\ UNCHANGED <<route, currentQuestionIndex, selectedOption, quizStarted, quizFinished,
                 error, showConfirmModal, timerActive, timerAnswers, submitted,
                 submitTrigger, pendingSubmits, tickParity>>

\* fetchQuizData, getQuizById rejected.
fetchQuizDataQuizFails ==
  /\ UNCHANGED notTq
  /\ mounted /\ loading
  /\ error' = Some(LoadFailed)
  /\ loading' = FALSE
  /\ UNCHANGED <<route, quiz, questions, currentQuestionIndex, answers, answerObjs,
                 selectedOption, timeLeft, quizStarted, quizFinished, showConfirmModal,
                 timerActive, timerAnswers, submitted, submitTrigger, pendingSubmits,
                 tickParity, lastChoice>>

\* fetchQuizData, getQuizById answered and getQuestionsByQuiz rejected.
fetchQuizDataQuestionsFail ==
  /\ UNCHANGED notTq
  /\ mounted /\ loading
  /\ \E T \in TimeLimits :
       /\ quiz' = Some(T)
       /\ timeLeft' = T * SecondsPerMinute
  /\ error' = Some(LoadFailed)
  /\ loading' = FALSE
  /\ UNCHANGED <<route, questions, currentQuestionIndex, answers, answerObjs,
                 selectedOption, quizStarted, quizFinished, showConfirmModal,
                 timerActive, timerAnswers, submitted, submitTrigger, pendingSubmits,
                 tickParity, lastChoice>>

\* "Back to Quizzes" (error view, instructions view).
backToQuizzes ==
  /\ UNCHANGED notTq
  /\ mounted /\ View \in {"error", "instructions"}
  /\ Unmount(QuizzesRoute)
  /\ UNCHANGED <<submitted, submitTrigger, pendingSubmits>>

\* The timer effect (deps quizStarted, quizFinished): whether it sets an interval.
TimerEffectSetsInterval(started, finished) == started /\ ~finished

startQuiz ==
  /\ UNCHANGED notTq
  /\ mounted /\ View = "instructions"
  /\ quizStarted' = TRUE
  /\ timerActive' = TimerEffectSetsInterval(quizStarted', quizFinished)
  /\ timerAnswers' = answers
  /\ UNCHANGED <<route, quiz, questions, currentQuestionIndex, answers, answerObjs,
                 selectedOption, timeLeft, quizFinished, loading, error,
                 showConfirmModal, submitted, submitTrigger, pendingSubmits,
                 tickParity, lastChoice>>

\* The radio buttons exist only for a current question.
handleOptionSelect ==
  /\ UNCHANGED notTq
  /\ mounted /\ View = "quiz"
  /\ currentQuestionIndex < Len(questions)
  /\ \E optionId \in OptionIds :
       /\ selectedOption' = Some(optionId)
       \* updatedAnswers = [...answers] copies the references: the assignment
       \* writes the Answer object every copy of the array shares.
       /\ answerObjs' = [answerObjs EXCEPT
                           ![answers[currentQuestionIndex + 1]].selected_option = optionId]
       /\ lastChoice' = [lastChoice EXCEPT ![currentQuestionIndex + 1] = optionId]
  /\ UNCHANGED <<route, quiz, questions, currentQuestionIndex, answers, timeLeft,
                 quizStarted, quizFinished, loading, error, showConfirmModal,
                 timerActive, timerAnswers, submitted, submitTrigger, pendingSubmits,
                 tickParity>>

\* answers[i].selected_option === -1 ? null : answers[i].selected_option  (i 0-based)
SelectionAt(i) ==
  IF answerObjs[answers[i + 1]].selected_option = Unanswered
  THEN Null
  ELSE Some(answerObjs[answers[i + 1]].selected_option)

goToNextQuestionOvershoots ==
  /\ UNCHANGED notTq
  /\ mounted /\ View = "quiz"
  /\ IF currentQuestionIndex < Len(questions)
     THEN /\ currentQuestionIndex' = currentQuestionIndex + 1
          /\ selectedOption' = (IF currentQuestionIndex + 1 < Len(answers)
                                THEN SelectionAt(currentQuestionIndex + 1)
                                ELSE selectedOption)
          /\ UNCHANGED showConfirmModal
     ELSE /\ showConfirmModal' = TRUE
          /\ UNCHANGED <<currentQuestionIndex, selectedOption>>
  /\ UNCHANGED <<route, quiz, questions, answers, answerObjs, timeLeft, quizStarted,
                 quizFinished, loading, error, timerActive, timerAnswers, submitted,
                 submitTrigger, pendingSubmits, tickParity, lastChoice>>

goToNextQuestion ==
  /\ UNCHANGED notTq
  /\ mounted /\ View = "quiz"
  /\ IF currentQuestionIndex < Len(questions) - 1
     THEN /\ currentQuestionIndex' = currentQuestionIndex + 1
          /\ selectedOption' = SelectionAt(currentQuestionIndex + 1)
          /\ UNCHANGED showConfirmModal
     ELSE /\ showConfirmModal' = TRUE
          /\ UNCHANGED <<currentQuestionIndex, selectedOption>>
  /\ UNCHANGED <<route, quiz, questions, answers, answerObjs, timeLeft, quizStarted,
                 quizFinished, loading, error, timerActive, timerAnswers, submitted,
                 submitTrigger, pendingSubmits, tickParity, lastChoice>>

goToPreviousQuestionKeepsSelection ==
  /\ UNCHANGED notTq
  /\ mounted /\ View = "quiz"
  /\ IF currentQuestionIndex > 0
     THEN currentQuestionIndex' = currentQuestionIndex - 1
     ELSE UNCHANGED currentQuestionIndex
  /\ UNCHANGED <<route, quiz, questions, answers, answerObjs, selectedOption, timeLeft,
                 quizStarted, quizFinished, loading, error, showConfirmModal, timerActive,
                 timerAnswers, submitted, submitTrigger, pendingSubmits, tickParity,
                 lastChoice>>

\* (The Previous button is disabled on the first question; the handler itself
\* then changes nothing.)
goToPreviousQuestion ==
  /\ UNCHANGED notTq
  /\ mounted /\ View = "quiz"
  /\ IF currentQuestionIndex > 0
     THEN /\ currentQuestionIndex' = currentQuestionIndex - 1
          /\ selectedOption' = SelectionAt(currentQuestionIndex - 1)
     ELSE UNCHANGED <<currentQuestionIndex, selectedOption>>
  /\ UNCHANGED <<route, quiz, questions, answers, answerObjs, timeLeft, quizStarted,
                 quizFinished, loading, error, showConfirmModal, timerActive,
                 timerAnswers, submitted, submitTrigger, pendingSubmits, tickParity, lastChoice>>

hideConfirmModalResetsFinished ==
  /\ UNCHANGED notTq
  /\ mounted /\ View = "quiz" /\ showConfirmModal
  /\ showConfirmModal' = FALSE
  /\ quizFinished' = FALSE
  /\ timerActive' = TimerEffectSetsInterval(quizStarted, quizFinished')
  /\ UNCHANGED <<route, quiz, questions, currentQuestionIndex, answers, answerObjs,
                 selectedOption, timeLeft, quizStarted, loading, error,
                 timerAnswers, submitted, submitTrigger, pendingSubmits,
                 tickParity, lastChoice>>

\* The modal's onHide and its "Continue Quiz" button.
hideConfirmModal ==
  /\ UNCHANGED notTq
  /\ mounted /\ View = "quiz" /\ showConfirmModal
  /\ showConfirmModal' = FALSE
  /\ UNCHANGED <<route, quiz, questions, currentQuestionIndex, answers, answerObjs,
                 selectedOption, timeLeft, quizStarted, quizFinished, loading, error,
                 timerActive, timerAnswers, submitted, submitTrigger, pendingSubmits,
                 tickParity, lastChoice>>

\* finishQuiz up to its await: called with the answers array its closure holds.
finishQuiz(arr, trigger) ==
  /\ quizFinished' = TRUE
  /\ timerActive' = FALSE
  /\ submitted' = Some([quiz_id |-> quizId, answers |-> validAnswers(arr)])
  /\ submitTrigger' = trigger
  /\ pendingSubmits' = pendingSubmits + 1

\* The modal's "Finish Quiz" button.
confirmFinish ==
  /\ UNCHANGED notTq
  /\ mounted /\ View = "quiz" /\ showConfirmModal
  /\ pendingSubmits < MaxPending
  /\ finishQuiz(answers, "button")
  /\ UNCHANGED <<route, quiz, questions, currentQuestionIndex, answers, answerObjs,
                 selectedOption, timeLeft, quizStarted, loading, error,
                 showConfirmModal, timerAnswers, tickParity, lastChoice>>

timerTickForgetsFinish ==
  /\ UNCHANGED notTq
  /\ timerActive
  /\ tickParity' = 1 - tickParity
  /\ timeLeft' = (IF timeLeft <= 1 THEN 0 ELSE timeLeft - 1)
  /\ UNCHANGED <<quizFinished, timerActive, submitted, submitTrigger, pendingSubmits>>
  /\ UNCHANGED <<route, quiz, questions, currentQuestionIndex, answers, answerObjs,
                 selectedOption, quizStarted, loading, error, showConfirmModal,
                 timerAnswers, lastChoice>>

timerTickGoesNegative ==
  /\ UNCHANGED notTq
  /\ timerActive
  /\ tickParity' = 1 - tickParity
  /\ timeLeft' = timeLeft - 1
  /\ IF timeLeft <= 1
     THEN finishQuiz(timerAnswers, "timer")
     ELSE UNCHANGED <<quizFinished, timerActive, submitted, submitTrigger,
                      pendingSubmits>>
  /\ UNCHANGED <<route, quiz, questions, currentQuestionIndex, answers, answerObjs,
                 selectedOption, quizStarted, loading, error, showConfirmModal,
                 timerAnswers, lastChoice>>

\* One firing of the interval set by the timer effect.
timerTick ==
  /\ UNCHANGED notTq
  /\ timerActive
  /\ tickParity' = 1 - tickParity
  /\ IF timeLeft <= 1
     THEN /\ timeLeft' = 0
          /\ finishQuiz(timerAnswers, "timer")
     ELSE /\ timeLeft' = timeLeft - 1
          /\ UNCHANGED <<quizFinished, timerActive, submitted, submitTrigger,
                         pendingSubmits>>
  /\ UNCHANGED <<route, quiz, questions, currentQuestionIndex, answers, answerObjs,
                 selectedOption, quizStarted, loading, error, showConfirmModal,
                 timerAnswers, lastChoice>>

\* finishQuiz after its await, submitQuiz answered: navigate to the results
\* page (navigate works whether or not TakeQuiz is still mounted).
submitQuizOk ==
  /\ UNCHANGED notTq
  /\ pendingSubmits > 0
  /\ pendingSubmits' = pendingSubmits - 1
  /\ Unmount(ResultsRoute)
  /\ UNCHANGED <<submitted, submitTrigger>>

\* finishQuiz after its await, submitQuiz rejected: the catch block.  State
\* setters of an unmounted component do nothing.
submitQuizFails ==
  /\ UNCHANGED notTq
  /\ pendingSubmits > 0
  /\ pendingSubmits' = pendingSubmits - 1
  /\ IF mounted
     THEN /\ error' = Some(SubmitFailed)
          /\ quizFinished' = FALSE
          /\ IF quizFinished
             THEN /\ timerActive' = TimerEffectSetsInterval(quizStarted, quizFinished')
                  /\ timerAnswers' = answers
             ELSE UNCHANGED <<timerActive, timerAnswers>>
     ELSE UNCHANGED <<error, quizFinished, timerActive, timerAnswers>>
  /\ UNCHANGED <<route, quiz, questions, currentQuestionIndex, answers, answerObjs,
                 selectedOption, timeLeft, quizStarted, loading, showConfirmModal,
                 submitted, submitTrigger, tickParity, lastChoice>>


\* ------------------------------------------------------------- AuthProvider
LoginFailed == "Login failed"
Tokens == {"t1", "t2"}
Users == {[id |-> 1, role |-> "admin"], [id |-> 2, role |-> "user"]}

\* useState initial values; token starts as localStorage.getItem('token') || null.
AuthInit ==
  /\ lsToken \in {Null} \cup {Some(t) : t \in Tokens}
  /\ token = lsToken
  /\ user = Null
  /\ authLoading = TRUE
  /\ authError = Null
  /\ effectDue = TRUE
  /\ profilePending = 0
  /\ loginPending = 0
  /\ logins = 0
  /\ lastAuthStep = "init"
  /\ everLoaded = FALSE

\* user?.role === 'admin'
isAdmin == IF user = Null THEN FALSE ELSE user[1].role = "admin"

\* The effect on [token], up to its await.  React runs the effect of a committed
\* render before the next event is handled: the other steps wait for it.
initializeAuth ==
  /\ UNCHANGED notAuth
  /\ effectDue
  /\ effectDue' = FALSE
  /\ IF token # Null
     THEN /\ profilePending' = profilePending + 1
          /\ UNCHANGED authLoading
     ELSE /\ authLoading' = FALSE
          /\ UNCHANGED profilePending
  /\ lastAuthStep' = "initializeAuth"
  /\ UNCHANGED <<user, token, lsToken, authError, loginPending, logins, everLoaded>>

\* initializeAuth after its await, getUserProfile answered.
getUserProfileOk ==
  /\ UNCHANGED notAuth
  /\ ~effectDue /\ profilePending > 0
  /\ profilePending' = profilePending - 1
  /\ \E data \in Users : user' = Some(data)
  /\ authLoading' = FALSE
  /\ lastAuthStep' = "getUserProfileOk"
  /\ everLoaded' = TRUE
  /\ UNCHANGED <<token, lsToken, authError, effectDue, loginPending, logins>>

\* The body of logout: localStorage.removeItem, setToken(null), setUser(null).
logoutKeepsUser ==
  /\ lsToken' = Null
  /\ token' = Null
  /\ UNCHANGED user
  /\ effectDue' = (token # Null)

logoutBody ==
  /\ lsToken' = Null
  /\ token' = Null
  /\ user' = Null
  /\ effectDue' = (token # Null)

getUserProfileFailsKeepsToken ==
  /\ UNCHANGED notAuth
  /\ ~effectDue /\ profilePending > 0
  /\ profilePending' = profilePending - 1
  /\ authLoading' = FALSE
  /\ lastAuthStep' = "getUserProfileFails"
  /\ UNCHANGED <<user, token, lsToken, effectDue, authError, loginPending, logins,
                 everLoaded>>

\* initializeAuth after its await, getUserProfile rejected: logout(), then finally.
getUserProfileFails ==
  /\ UNCHANGED notAuth
  /\ ~effectDue /\ profilePending > 0
  /\ profilePending' = profilePending - 1
  /\ logoutBody
  /\ authLoading' = FALSE
  /\ lastAuthStep' = "getUserProfileFails"
  /\ UNCHANGED <<authError, loginPending, logins, everLoaded>>

\* login up to its await.
login ==
  /\ UNCHANGED notAuth
  /\ ~effectDue /\ logins < MaxLogins
  /\ logins' = logins + 1
  /\ authError' = Null
  /\ loginPending' = loginPending + 1
  /\ lastAuthStep' = "login"
  /\ UNCHANGED <<user, token, lsToken, authLoading, effectDue, profilePending,
                 everLoaded>>

loginOkForgetsStorage ==
  /\ UNCHANGED notAuth
  /\ ~effectDue /\ loginPending > 0
  /\ loginPending' = loginPending - 1
  /\ \E newToken \in Tokens, userData \in Users :
       /\ token' = Some(newToken)
       /\ user' = Some(userData)
  /\ UNCHANGED lsToken
  /\ effectDue' = (token' # token)
  /\ lastAuthStep' = "loginOk"
  /\ everLoaded' = TRUE
  /\ UNCHANGED <<authLoading, authError, profilePending, logins>>

\* login after its await, loginApi answered.
loginOk ==
  /\ UNCHANGED notAuth
  /\ ~effectDue /\ loginPending > 0
  /\ loginPending' = loginPending - 1
  /\ \E newToken \in Tokens, userData \in Users :
       /\ lsToken' = Some(newToken)
       /\ token' = Some(newToken)
       /\ user' = Some(userData)
  /\ effectDue' = (token' # token)
  /\ lastAuthStep' = "loginOk"
  /\ everLoaded' = TRUE
  /\ UNCHANGED <<authLoading, authError, profilePending, logins>>

\* login after its await, loginApi rejected.
loginFails ==
  /\ UNCHANGED notAuth
  /\ ~effectDue /\ loginPending > 0
  /\ loginPending' = loginPending - 1
  /\ authError' = Some(LoginFailed)
  /\ lastAuthStep' = "loginFails"
  /\ UNCHANGED <<user, token, lsToken, authLoading, effectDue, profilePending, logins,
                 everLoaded>>

\* logout called by a component.
logout ==
  /\ UNCHANGED notAuth
  /\ ~effectDue
  /\ logoutBody
  /\ lastAuthStep' = "logout"
  /\ UNCHANGED <<authLoading, authError, profilePending, loginPending, logins,
                 everLoaded>>

AuthNext ==
  \/ initializeAuth
  \/ getUserProfileOk
  \/ getUserProfileFails
  \/ login
  \/ loginOk
  \/ loginFails
  \/ logout

\* ------------------------------------------------------------- quiz controller
\* A field missing from the request body, and a NULL column.
Undefined == "<undefined>"
DefaultTimeDuration == "00:30"

Chapters == {1, 2}
\* chapterId of a request: 0 stands for a body without chapterId (as falsy as 0).
ChapterIds == {0, 1, 2, 3}
Titles == {Undefined, "a", "b"}
Descriptions == {Undefined, "", "d"}
TimeDurations == {Undefined, "01:00"}
Bodies == [title : Titles, description : Descriptions, chapterId : ChapterIds,
           timeLimit : TimeDurations]
QuizIds == 1..MaxQuizzes

\* The falsy values among the inputs: undefined, the empty string, and the
\* number 0.
Falsy(v) == v \in {Undefined, ""}
FalsyId(n) == n \in {0}

\* a || b, for strings and for ids
Or(a, b) == IF Falsy(a) THEN b ELSE a
OrId(a, b) == IF FalsyId(a) THEN b ELSE a

\* The body of a request that carries none: every field is undefined.
NoBody == [title |-> Undefined, description |-> Undefined, chapterId |-> 0,
           timeLimit |-> Undefined]

CtlInit ==
  /\ quizzes = <<>>
  /\ nextId = 1
  /\ lastResp = Null

\* res.status(status).json({message, ...}), recorded with the request it answers.
Response(op, id, body, status, message) ==
  Some([op |-> op, id |-> id, body |-> body, status |-> status, message |-> message])

\* Quiz.findOne({where: {name, chapter_id}}) finds a row.
QuizExists(name, chapterId) ==
  \E i \in DOMAIN quizzes : quizzes[i].name = name /\ quizzes[i].chapter_id = chapterId

\* The values createQuiz passes to Quiz.create, with the id the table assigns.
NewQuiz(id, body) ==
  [id |-> id, name |-> body.title, remarks |-> body.description,
   chapter_id |-> body.chapterId, date_of_quiz |-> "now",
   time_duration |-> Or(body.timeLimit, DefaultTimeDuration)]

\* Chapter.findByPk(chapterId) finds a chapter.
ChapterFoundAlways(chapterId) == TRUE

ChapterFound(chapterId) == chapterId \in Chapters

\* One createQuiz request, handled to its answer.  Sequelize rejects a where
\* clause with an undefined value, which the catch block answers.
createQuiz ==
  /\ UNCHANGED notCtl
  /\ lastResp = Null
  /\ nextId <= MaxQuizzes
  /\ \E body \in Bodies :
       IF ~ChapterFound(body.chapterId)
       THEN /\ lastResp' = Response("create", 0, body, 404, "Chapter not found")
            /\ UNCHANGED <<quizzes, nextId>>
       ELSE IF body.title = Undefined
       THEN /\ lastResp' = Response("create", 0, body, 500, "Internal server error")
            /\ UNCHANGED <<quizzes, nextId>>
       ELSE IF QuizExists(body.title, body.chapterId)
       THEN /\ lastResp' = Response("create", 0, body, 400,
                                    "Quiz already exists in this chapter")
            /\ UNCHANGED <<quizzes, nextId>>
       ELSE /\ quizzes' = [i \in DOMAIN quizzes \cup {nextId} |->
                             IF i = nextId THEN NewQuiz(nextId, body) ELSE quizzes[i]]
            /\ nextId' = nextId + 1
            /\ lastResp' = Response("create", nextId, body, 201,
                                    "Quiz created successfully")

\* chapterId && chapterId !== quiz.get('chapter_id')
ChangingChapter(body, inst) ==
  ~FalsyId(body.chapterId) /\ body.chapterId # inst.chapter_id

\* The values updateQuiz passes to quiz.update, over the instance it has read.
UpdatedQuiz(body, inst) ==
  [inst EXCEPT !.name = Or(body.title, inst.name),
               !.remarks = Or(body.description, inst.remarks),
               !.chapter_id = OrId(body.chapterId, inst.chapter_id),
               !.time_duration = Or(body.timeLimit, inst.time_duration)]

\* One updateQuiz request, handled to its answer.
updateQuiz ==
  /\ UNCHANGED notCtl
  /\ lastResp = Null
  /\ \E id \in QuizIds, body \in Bodies :
       IF id \notin DOMAIN quizzes
       THEN /\ lastResp' = Response("update", id, body, 404, "Quiz not found")
            /\ UNCHANGED quizzes
       ELSE IF ChangingChapter(body, quizzes[id]) /\ ~ChapterFound(body.chapterId)
       THEN /\ lastResp' = Response("update", id, body, 404, "Chapter not found")
            /\ UNCHANGED quizzes
       ELSE /\ quizzes' = [quizzes EXCEPT ![id] = UpdatedQuiz(body, quizzes[id])]
            /\ lastResp' = Response("update", id, body, 200, "Quiz updated successfully")
  /\ UNCHANGED nextId

\* One deleteQuiz request, handled to its answer.
deleteQuiz ==
  /\ UNCHANGED notCtl
  /\ lastResp = Null
  /\ \E id \in QuizIds :
       IF id \notin DOMAIN quizzes
       THEN /\ lastResp' = Response("delete", id, NoBody, 404, "Quiz not found")
            /\ UNCHANGED quizzes
       ELSE /\ quizzes' = [i \in DOMAIN quizzes \ {id} |-> quizzes[i]]
            /\ lastResp' = Response("delete", id, NoBody, 200, "Quiz deleted successfully")
  /\ UNCHANGED nextId

\* The answer has been sent: the handler returns and the next request is taken.
endResponse ==
  /\ UNCHANGED notCtl
  /\ lastResp # Null
  /\ lastResp' = Null
  /\ UNCHANGED <<quizzes, nextId>>

CtlNext ==
  \/ createQuiz
  \/ updateQuiz
  \/ deleteQuiz
  \/ endResponse

\* ------------------------------------------------------------- specifications
Init == TQInit /\ AuthInit /\ lsToken = Null /\ CtlInit

Next ==
  \/ fetchQuizDataOk
  \/ fetchQuizDataQuizFails
  \/ fetchQuizDataQuestionsFail
  \/ backToQuizzes
  \/ startQuiz
  \/ handleOptionSelect
  \/ goToNextQuestion
  \/ goToPreviousQuestion
  \/ hideConfirmModal
  \/ confirmFinish
  \/ timerTick
  \/ submitQuizOk
  \/ submitQuizFails

Spec == Init /\ [][Next]_vars

\* The interval fires as long as it is set (the browser's timer queue).
FairSpec == Spec /\ WF_vars(timerTick)

AuthSpecInit == AuthInit /\ TQInit /\ CtlInit

AuthSpec == AuthSpecInit /\ [][AuthNext]_vars

CtlSpecInit == CtlInit /\ TQInit /\ AuthInit /\ lsToken = Null

CtlSpec == CtlSpecInit /\ [][CtlNext]_vars

\* A due effect runs, and every getUserProfile call is answered or rejected.
FairAuthSpec ==
  /\ AuthSpec
  /\ WF_vars(initializeAuth)
  /\ WF_vars(getUserProfileOk \/ getUserProfileFails)

\* ------------------------------------------------------------- claims
InProgress == mounted /\ quizStarted /\ ~quizFinished

\* A step in which the interval fires (it never unmounts the component).
IntervalFires == mounted' /\ tickParity' # tickParity

\* C1 as stated: while TakeQuiz stays mounted the phases only move forward:
\* quizStarted is never reset, quizFinished is set only while quizStarted holds,
\* and quizFinished is never reset, not even by a failed submitQuiz.
C1_ForwardOnly ==
  [][mounted' =>
       /\ quizStarted => quizStarted'
       /\ quizFinished' => quizStarted'
       /\ quizFinished => quizFinished']_vars

\* C1 amended: while TakeQuiz stays mounted quizStarted is never reset,
\* quizFinished is set only while quizStarted holds, and the one step that
\* resets quizFinished is the catch block of finishQuiz after a failed
\* submitQuiz, which also sets the error.
C1_ForwardExceptFailedSubmit ==
  [][mounted' =>
       /\ quizStarted => quizStarted'
       /\ quizFinished' => quizStarted'
       /\ (quizFinished /\ ~quizFinished') =>
             /\ pendingSubmits' = pendingSubmits - 1
             /\ error' = Some(SubmitFailed)]_vars

C1_Witness ==
  /\ mounted /\ quizStarted /\ ~quizFinished
  /\ error = Some(SubmitFailed)

\* C2: every firing of the interval that finds timeLeft <= 1 stops the timer,
\* sets timeLeft to 0 and calls finishQuiz (quizFinished set, one more submitQuiz
\* call, made by the timer); and, the interval firing as long as it is set, a quiz
\* in progress does not stay in progress: it gets finished (or the page is left).
C2_TimerExpiryFinishes ==
  /\ [][(IntervalFires /\ timeLeft <= 1) =>
          /\ timeLeft' = 0
          /\ ~timerActive'
          /\ quizFinished'
          /\ pendingSubmits' = pendingSubmits + 1
          /\ submitTrigger' = "timer"
          /\ submitted' # Null]_vars
  /\ [][(IntervalFires /\ timeLeft > 1) =>
          /\ timeLeft' = timeLeft - 1
          /\ pendingSubmits' = pendingSubmits]_vars
  /\ [](InProgress => timerActive)
  /\ (InProgress ~> (quizFinished \/ ~mounted))

C2_Witness ==
  /\ quizFinished /\ timeLeft = 0 /\ ~timerActive
  /\ submitTrigger = "timer" /\ pendingSubmits = 1
  /\ mounted /\ error = Null /\ quiz = Some(1)

\* C5: the body of every submitQuiz call holds, for each question the user has
\* answered, exactly one entry, with the option of the user's most recent choice,
\* and no entry for a question never answered.
SubmittedExactlyTheAnswered(body) ==
  LET ans == body.answers IN
  /\ body.quiz_id = quizId
  /\ \A i \in 1..Len(questions) :
       LET entries == {k \in 1..Len(ans) : ans[k].question_id = questions[i]} IN
       IF lastChoice[i] = Unanswered
       THEN entries = {}
       ELSE /\ Cardinality(entries) = 1
            /\ \A k \in entries : ans[k].selected_option = lastChoice[i]
  /\ \A k \in 1..Len(ans) :
       /\ \E i \in 1..Len(questions) : ans[k].question_id = questions[i]
       /\ ans[k].selected_option # Unanswered

C5_SubmitCarriesAnswered ==
  [][pendingSubmits' = pendingSubmits + 1 =>
       /\ submitted' # Null
       /\ SubmittedExactlyTheAnswered(submitted'[1])]_vars

C5_Witness ==
  /\ submitTrigger = "timer" /\ pendingSubmits = 1
  /\ submitted # Null
  /\ Len(questions) = 2
  /\ Len(submitted[1].answers) = 1
  /\ lastChoice[1] = Unanswered /\ lastChoice[2] = 2

\* C10 as stated: after a failed submitQuiz the error is set, quizFinished is
\* false again, the page is still the quiz page, and the user can try again: a
\* handler of the quiz view that leads to finishQuiz (Next/Finish, or the
\* modal's Finish Quiz) can be invoked.
AfterFailedSubmit == mounted /\ error = Some(SubmitFailed)

C10_UserCanRetry ==
  AfterFailedSubmit => ENABLED (goToNextQuestion \/ confirmFinish)

\* What holds instead: after a failed submitQuiz the error view is rendered and
\* no handler of the quiz view runs again; only the timer calls finishQuiz.
C10_NoUserRetry ==
  [][AfterFailedSubmit =>
       /\ View = "error"
       /\ (pendingSubmits' = pendingSubmits + 1 => submitTrigger' = "timer")]_vars

\* C6: the token in AuthProvider state always equals localStorage's 'token'
\* entry (both absent, or the same value), and right after logout the token, the
\* stored token and the user are all null.
C6_TokenMatchesStorage ==
  /\ token = lsToken
  /\ lastAuthStep = "logout" => (token = Null /\ lsToken = Null /\ user = Null)

C6_Witness ==
  /\ lastAuthStep = "loginOk" /\ logins = 2
  /\ token = Some("t2") /\ lsToken = Some("t2")

C8_FailedProfileClearsSession ==
  /\ [](lastAuthStep = "getUserProfileFails" =>
          (token = Null /\ lsToken = Null /\ user = Null /\ ~authLoading))
  /\ <>[](~authLoading)

C8_Witness ==
  /\ lastAuthStep = "getUserProfileFails" /\ logins = 0
  /\ token = Null /\ lsToken = Null /\ user = Null /\ ~authLoading

\* A step in which a handler of the controller answers a request.
Answers(op) == lastResp = Null /\ lastResp' # Null /\ lastResp'[1].op = op

\* C3 as stated: no two stored quizzes have the same name within the same
\* chapter.
C3_UniqueNameInChapter ==
  \A i, j \in DOMAIN quizzes :
    (i # j /\ quizzes[i].chapter_id = quizzes[j].chapter_id) =>
      quizzes[i].name # quizzes[j].name

\* The part of C3 that holds: a createQuiz whose title and chapter match a
\* stored quiz is answered 400 and stores nothing.
C3_DuplicateCreateRejected ==
  [][(Answers("create")
        /\ QuizExists(lastResp'[1].body.title, lastResp'[1].body.chapterId)) =>
       /\ lastResp'[1].status = 400
       /\ lastResp'[1].message = "Quiz already exists in this chapter"
       /\ quizzes' = quizzes]_vars

HasPassThreshold(row) ==
  \E f \in DOMAIN row : f \in {"passingScore", "passing_score", "pass_threshold"}

\* The part of C9 that holds: the quiz stored by a createQuiz answered 201 has
\* the request's title as name, the requested existing chapter, and the
\* request's timeLimit, or '00:30' without one, as time duration.
C9_StoredAsRequested ==
  (lastResp # Null /\ lastResp[1].op = "create" /\ lastResp[1].status = 201) =>
    LET body == lastResp[1].body
        row == quizzes[lastResp[1].id]
    IN /\ lastResp[1].id \in DOMAIN quizzes
       /\ row.name = body.title /\ row.name # Undefined
       /\ row.chapter_id = body.chapterId /\ row.chapter_id \in Chapters
       /\ row.time_duration =
            (IF body.timeLimit = Undefined THEN "00:30" ELSE body.timeLimit)

\* C9 as stated: that quiz is named, timed, in its chapter, and carries a pass
\* threshold value.
C9_StoredWithPassThreshold ==
  /\ C9_StoredAsRequested
  /\ (lastResp # Null /\ lastResp[1].op = "create" /\ lastResp[1].status = 201) =>
       HasPassThreshold(quizzes[lastResp[1].id])

\* C11: for a quiz with at least one question currentQuestionIndex is always
\* within 0..questions.length-1; goToNextQuestion on the last question leaves
\* the index as it is and opens the confirmation modal; goToPreviousQuestion
\* on the first question has no step that changes anything.
C11_IndexInRange ==
  /\ [](Len(questions) >= 1 =>
          currentQuestionIndex \in 0..(Len(questions) - 1))
  /\ [][(/\ goToNextQuestion
         /\ Len(questions) >= 1
         /\ currentQuestionIndex = Len(questions) - 1) =>
          /\ currentQuestionIndex' = currentQuestionIndex
          /\ showConfirmModal']_vars
  /\ []((Len(questions) >= 1 /\ currentQuestionIndex = 0) =>
          ~ENABLED (goToPreviousQuestion /\ vars' # vars))

C11_Witness ==
  /\ mounted /\ View = "quiz"
  /\ Len(questions) = 2 /\ currentQuestionIndex = 1
  /\ showConfirmModal /\ ~quizFinished

\* answers[i].selected_option (i 0-based), read through the current array.
RecordedOption(i) == answerObjs[answers[i + 1]].selected_option

\* C12: once the quiz and its questions are loaded the displayed selection
\* matches the recorded answer of the current question: selectedOption is null
\* exactly when that answer's selected_option is -1, and otherwise equals it;
\* and handleOptionSelect records one of the options in the answer of the
\* current question and leaves every other answer, and the array's length and
\* question ids, as they were.
C12_SelectionMatchesAnswer ==
  /\ []((mounted /\ ~loading /\ Len(questions) >= 1) =>
          /\ Len(answers) = Len(questions)
          /\ (selectedOption = Null) <=> (RecordedOption(currentQuestionIndex) = Unanswered)
          /\ selectedOption # Null =>
                selectedOption[1] = RecordedOption(currentQuestionIndex))
  /\ [][handleOptionSelect =>
          /\ Len(answers') = Len(answers)
          /\ currentQuestionIndex' = currentQuestionIndex
          /\ \A i \in 1..Len(answers) :
               /\ Deref(answers)'[i].question_id = Deref(answers)[i].question_id
               /\ i # currentQuestionIndex + 1 => Deref(answers)'[i] = Deref(answers)[i]
          /\ Deref(answers)'[currentQuestionIndex + 1].selected_option \in OptionIds]_vars

C12_Witness ==
  /\ mounted /\ View = "quiz"
  /\ Len(questions) = 2 /\ currentQuestionIndex = 0
  /\ selectedOption = Some(1)
  /\ RecordedOption(0) = 1 /\ RecordedOption(1) = 2

\* With a quiz loaded with time limit T minutes, timeLeft is within 0..T*60,
\* and it is never negative.
TimeLeftInRange ==
  /\ timeLeft >= 0
  /\ quiz # Null => timeLeft \in 0..(quiz[1] * SecondsPerMinute)

\* Once the quiz is loaded timeLeft changes only in a firing of the interval,
\* which happens only while the quiz is started and not finished; answering,
\* navigating, opening the modal (goToNextQuestion on the last question) and
\* closing it leave timeLeft as it is.
TimeLeftChangedByTickOnly ==
  /\ [][IntervalFires => (quizStarted /\ ~quizFinished)]_vars
  /\ [][(mounted' /\ quiz # Null /\ timeLeft' # timeLeft) =>
          (IntervalFires /\ timeLeft' = timeLeft - 1)]_vars
  /\ [][(\/ handleOptionSelect
         \/ goToNextQuestion
         \/ goToPreviousQuestion
         \/ hideConfirmModal) => timeLeft' = timeLeft]_vars

\* C13 as stated: timeLeft stays within 0..T*60, every firing of the interval
\* decreases it by exactly 1, only while the quiz is started and not finished,
\* and nothing else changes it.
C13_EveryTickDecrements ==
  /\ []TimeLeftInRange
  /\ TimeLeftChangedByTickOnly
  /\ [][IntervalFires => timeLeft' = timeLeft - 1]_vars

\* C13 amended: timeLeft stays within 0..T*60; a firing of the interval
\* decreases it by exactly 1 while it is positive and leaves it at 0 when it
\* is 0 already; the interval fires only while the quiz is started and not
\* finished, and nothing else changes timeLeft.
C13_TickDecrementsDownToZero ==
  /\ []TimeLeftInRange
  /\ TimeLeftChangedByTickOnly
  /\ [][IntervalFires =>
          timeLeft' = (IF timeLeft >= 1 THEN timeLeft - 1 ELSE 0)]_vars

\* The interval has fired with timeLeft at 0 (a quiz of time limit 0).
C13_Witness ==
  /\ mounted /\ quiz = Some(0)
  /\ tickParity = 1 /\ timeLeft = 0
  /\ quizFinished /\ submitTrigger = "timer" /\ pendingSubmits = 1

\* A step in which updateQuiz answers 200.
UpdateSucceeds == Answers("update") /\ lastResp'[1].status = 200

\* The quizzes other than the one updated, and that quiz's id and date, are
\* as they were.
UpdateFrame(id) ==
  /\ DOMAIN quizzes' = DOMAIN quizzes
  /\ \A j \in DOMAIN quizzes : j # id => quizzes'[j] = quizzes[j]
  /\ DOMAIN quizzes'[id] = DOMAIN quizzes[id]
  /\ quizzes'[id].id = quizzes[id].id
  /\ quizzes'[id].date_of_quiz = quizzes[id].date_of_quiz

\* C14 as stated: a successful updateQuiz gives each of name, remarks,
\* chapter_id and time_duration the value the request body supplies for it, an
\* empty string included, and keeps the previous value of a field the body does
\* not supply; no other quiz and no other field is modified.
C14_UpdateTakesSupplied ==
  [][UpdateSucceeds =>
       LET id == lastResp'[1].id
           body == lastResp'[1].body
           old == quizzes[id]
           new == quizzes'[id]
       IN /\ UpdateFrame(id)
          /\ new.name = (IF body.title # Undefined THEN body.title ELSE old.name)
          /\ new.remarks =
               (IF body.description # Undefined THEN body.description ELSE old.remarks)
          /\ new.chapter_id = (IF body.chapterId # 0 THEN body.chapterId ELSE old.chapter_id)
          /\ new.time_duration =
               (IF body.timeLimit # Undefined THEN body.timeLimit ELSE old.time_duration)]_vars

\* The part of C14 that holds: a successful updateQuiz gives each of the four
\* fields the supplied value when that value is truthy, keeps the previous
\* value otherwise (also when an empty string is supplied), and modifies no
\* other quiz and no other field.
C14_UpdateTakesTruthy ==
  [][UpdateSucceeds =>
       LET id == lastResp'[1].id
           body == lastResp'[1].body
           old == quizzes[id]
           new == quizzes'[id]
       IN /\ UpdateFrame(id)
          /\ new.name = (IF body.title \notin {Undefined, ""} THEN body.title ELSE old.name)
          /\ new.remarks =
               (IF body.description \notin {Undefined, ""}
                THEN body.description ELSE old.remarks)
          /\ new.chapter_id = (IF body.chapterId # 0 THEN body.chapterId ELSE old.chapter_id)
          /\ new.time_duration =
               (IF body.timeLimit \notin {Undefined, ""}
                THEN body.timeLimit ELSE old.time_duration)]_vars

====
